---- MODULE Spec2Model ----
\* Model of rllib/env/wrappers/recsim.py: the three gym wrappers that make a
\* RecSim environment usable by RLlib (RecSimResetWrapper,
\* RecSimObservationSpaceWrapper, MultiDiscreteToDiscreteActionWrapper), their
\* composition recsim_gym_wrapper, and the configuration handling of the
\* environment class built by make_recsim_env.
\*
\* Three specifications share the variables:
\*   Spec        the life cycle of an environment built by recsim_gym_wrapper
\*               (construction, reset, step, close);
\*   SpecAction  MultiDiscreteToDiscreteActionWrapper.action as a pure function
\*               of the slot cardinalities and of the incoming index;
\*   SpecConfig  _RecSimEnv.__init__'s treatment of its configuration argument.
EXTENDS Integers, Sequences, FiniteSets, TLC

VARIABLES
    pc,                       \* "new", "ready" (wrapper built) or "failed" (construction raised)
    convert_flag,             \* recsim_gym_wrapper's convert_to_discrete_action_space
    env_action_space,         \* action space of the wrapped (underlying) environment
    env_docs,                 \* underlying environment: ids of its current candidate documents
    env_close_called,         \* underlying environment: its close() has been invoked
    observation_space,        \* RecSimObservationSpaceWrapper.observation_space
    action_space,             \* action space the built environment exposes
    action_space_dimensions,  \* MultiDiscreteToDiscreteActionWrapper.action_space_dimensions
    sampled_obs_reset,        \* RecSimResetWrapper._sampled_obs
    sampled_obs_obsw,         \* RecSimObservationSpaceWrapper._sampled_obs
    env_out,                  \* what the underlying reset/step returned, as returned
    raw_obs,                  \* that same object once the wrappers have run
    obsw_in,                  \* argument of observation(), as passed
    obsw_in_after,            \* that same object once observation() has returned
    ret_obs,                  \* observation the built environment returned
    act_in,                   \* action the caller passed to step / action()
    last_action,              \* action forwarded to the underlying environment
    last_op,                  \* last call: "none", "construct", "reset", "step", "close", "action"
    error,                    \* exception the last call raised, or "none"
    cfg_in,                   \* env_ctx argument of _RecSimEnv.__init__
    env_ctx                   \* env_ctx after the defaults were applied

vars == <<pc, convert_flag, env_action_space, env_docs, env_close_called,
          observation_space, action_space, action_space_dimensions,
          sampled_obs_reset, sampled_obs_obsw, env_out, raw_obs, obsw_in,
          obsw_in_after, ret_obs, act_in, last_action, last_op, error,
          cfg_in, env_ctx>>

\* ---------------------------------------------------------------------------
\* Bounds of the model
\* ---------------------------------------------------------------------------
NumCandidates == 2   \* documents in the underlying environment's candidate set
MaxFirstDocId == 2   \* its candidate sets start at a document id in 0..MaxFirstDocId
MaxSlots == 2        \* SpecAction: at most this many slots
MaxCard == 4         \* SpecAction: slot cardinalities are 1..MaxCard
MaxIndex == 20       \* SpecAction: incoming indices are -MaxIndex..MaxIndex

SlateSize == 2       \* default slate size: slots of the underlying action space

None == [kind |-> "None"]

\* ---------------------------------------------------------------------------
\* Python / numpy primitives used by the module
\* ---------------------------------------------------------------------------
Digits == <<"0", "1", "2", "3", "4", "5", "6", "7", "8", "9">>

RECURSIVE str(_)
\* str(k) of a non-negative int: its decimal representation.
str(k) == IF k < 10 THEN Digits[k + 1] ELSE str(k \div 10) \o Digits[(k % 10) + 1]

\* Faulty variant: division truncating toward zero.
divmod_trunc(a, n) ==
    IF a >= 0 THEN <<a \div n, a % n>>
    ELSE <<-((-a) \div n), -((-a) % n)>>
\* divmod(a, n) for n > 0: floor division and the non-negative remainder.
divmod(a, n) == <<a \div n, a % n>>

RECURSIVE prod(_)
\* np.prod of a vector.
prod(nvec) == IF nvec = <<>> THEN 1 ELSE Head(nvec) * prod(Tail(nvec))

\* ---------------------------------------------------------------------------
\* Spaces and values
\* A leaf value is [dtype, val]; an ordered mapping is a sequence of
\* [key, value] entries with distinct keys, in iteration order.
\* ---------------------------------------------------------------------------
Leaf(dt, v) == [dtype |-> dt, val |-> v]
Keys(m) == {m[i].key : i \in 1..Len(m)}

\* dtype of the arrays the underlying environment emits
EnvDType == "float64"
\* user-state values the underlying environment emits
UserVals == {0, 1}
BoxSpace == [kind |-> "Box", dtype |-> "float32"]
ResponseSpace == [kind |-> "Discrete", dtype |-> "int64", n |-> 2]

\* Members of a leaf space over the modelled value range.
Members(space) ==
    IF space.kind = "Discrete"
    THEN {Leaf(space.dtype, v) : v \in 0..(space.n - 1)}
    ELSE {Leaf(space.dtype, v) : v \in UserVals}

\* Candidate sets the underlying environment may hold after a reset or step:
\* documents carry consecutive ids, iterated in ascending or descending order.
CandidateIds ==
    {[i \in 1..NumCandidates |-> b + i - 1] : b \in 0..MaxFirstDocId}
    \cup {[i \in 1..NumCandidates |-> b + NumCandidates - i] : b \in 0..MaxFirstDocId}

\* The underlying environment's "doc" observation: keyed by document id, the
\* features being those of the document.
EnvDocObs(ids) ==
    [i \in 1..Len(ids) |-> [key |-> str(ids[i]), value |-> Leaf(EnvDType, ids[i])]]

\* The underlying environment's declared observation space (a property
\* computed from its current candidate documents).
EnvObservationSpace(ids) ==
    [user |-> BoxSpace,
     doc |-> [i \in 1..Len(ids) |-> [key |-> str(ids[i]), space |-> BoxSpace]],
     response |-> ResponseSpace]

\* space.sample(), reduced to what convert_element_to_space_type reads of it:
\* the structure and the dtype of every leaf.
Sample(space) ==
    [user |-> space.user.dtype,
     doc |-> [i \in 1..Len(space.doc) |-> [key |-> space.doc[i].key,
                                           dtype |-> space.doc[i].space.dtype]],
     response |-> space.response.dtype]

\* convert_element_to_space_type(element, sampled_element): every leaf of
\* element is cast to the dtype of the corresponding leaf of the sample; the
\* structure and the keys of element are kept.
convert_element_to_space_type(element, sampled) ==
    [user |-> Leaf(sampled.user, element.user.val),
     doc |-> [i \in 1..Len(element.doc) |->
                [key |-> element.doc[i].key,
                 value |-> Leaf(sampled.doc[i].dtype, element.doc[i].value.val)]],
     response |-> Leaf(sampled.response, element.response.val)]

\* ---------------------------------------------------------------------------
\* RecSimObservationSpaceWrapper
\* ---------------------------------------------------------------------------
\* Faulty variant: positions counted from 1.
ObservationSpace_from1(obs_space) ==
    [user |-> obs_space.user,
     doc |-> [k \in 1..Len(obs_space.doc) |->
                [key |-> str(k), space |-> obs_space.doc[k].space]],
     response |-> obs_space.response]
\* __init__: the declared space, documents re-keyed by position.
ObservationSpace(obs_space) ==
    [user |-> obs_space.user,
     doc |-> [k \in 1..Len(obs_space.doc) |->
                [key |-> str(k - 1), space |-> obs_space.doc[k].space]],
     response |-> obs_space.response]

\* Faulty variant: the underlying ids are kept as keys.
observation_keepids(obs, sampled) ==
    [ret |-> convert_element_to_space_type(obs, sampled), arg |-> obs]
\* Faulty variant: the documents are enumerated in reverse.
observation_reversed(obs, sampled) ==
    [ret |-> convert_element_to_space_type(
                [user |-> obs.user,
                 doc |-> [k \in 1..Len(obs.doc) |->
                            [key |-> str(k - 1),
                             value |-> obs.doc[Len(obs.doc) + 1 - k].value]],
                 response |-> obs.response], sampled),
     arg |-> obs]
\* observation(obs): ret is the returned observation, arg the argument object
\* as the call leaves it.
observation(obs, sampled) ==
    [ret |-> convert_element_to_space_type(
                [user |-> obs.user,
                 doc |-> [k \in 1..Len(obs.doc) |->
                            [key |-> str(k - 1), value |-> obs.doc[k].value]],
                 response |-> obs.response], sampled),
     arg |-> obs]

\* ---------------------------------------------------------------------------
\* RecSimResetWrapper
\* ---------------------------------------------------------------------------
\* Faulty variant: a sample one past the end of the response space.
ResponseSamples_offbyone(space) ==
    {Leaf(space.response.dtype, v) : v \in 0..space.response.n}
\* self.env.observation_space["response"].sample(): any member of the space.
ResponseSamples(space) == Members(space.response)

\* reset(), given the underlying reset's result and the sampled response: the
\* "response" item is assigned into the underlying result (arg), and the
\* converted copy is returned (ret).
ResetWrapper_reset(obs, response, sampled) ==
    LET filled == [user |-> obs.user, doc |-> obs.doc, response |-> response]
    IN  [ret |-> convert_element_to_space_type(filled, sampled), arg |-> filled]

\* Faulty variant: close not overridden, so the underlying close is called
\* and raises.
ResetWrapper_close_inherited == [raised |-> "NotImplementedError", env_close |-> TRUE]
\* close(): pass. raised is the exception of the call, env_close whether the
\* underlying environment's close() is invoked.
ResetWrapper_close == [raised |-> "none", env_close |-> FALSE]

\* ---------------------------------------------------------------------------
\* MultiDiscreteToDiscreteActionWrapper
\* ---------------------------------------------------------------------------
\* Faulty variant: the check inverted.
Supported_inverted(space) == space.kind # "MultiDiscrete"
\* isinstance(env.action_space, MultiDiscrete)
Supported(space) == space.kind = "MultiDiscrete"

\* __init__: the exception raised and the two attributes set.
ActionWrapper_init(space) ==
    IF ~Supported(space)
    THEN [raised |-> "UnsupportedSpaceException", dims |-> None, space |-> None]
    ELSE [raised |-> "none", dims |-> space.nvec,
          space |-> [kind |-> "Discrete", n |-> prod(space.nvec)]]

RECURSIVE action_loop(_, _, _)
\* the for loop of action(): slot idx takes the remainder, the quotient goes
\* on to the next slot.
action_loop(a, dims, idx) ==
    IF idx > Len(dims) THEN <<>>
    ELSE LET qr == divmod(a, dims[idx])
         IN  <<qr[2]>> \o action_loop(qr[1], dims, idx + 1)

RECURSIVE action_msf(_, _)
\* Faulty variant: the first slot as most significant digit.
action_msf(a, dims) ==
    IF dims = <<>> THEN <<>>
    ELSE LET rest == prod(Tail(dims))
         IN  <<(a \div rest) % Head(dims)>> \o action_msf(a % rest, Tail(dims))
RECURSIVE action_noquot(_, _)
\* Faulty variant: the quotient is dropped, every slot reads the same index.
action_noquot(a, dims) ==
    IF dims = <<>> THEN <<>>
    ELSE <<a % Head(dims)>> \o action_noquot(a, Tail(dims))
\* action(action): the discrete index converted to a multi-discrete action.
action(a, dims) == action_loop(a, dims, 1)

\* ---------------------------------------------------------------------------
\* recsim_gym_wrapper
\* ---------------------------------------------------------------------------
\* The wrappers are stacked in the order reset, observation, action; an
\* exception of the last constructor leaves the caller without an environment.
recsim_gym_wrapper(env_space, docs, flag) ==
    LET obs_space == ObservationSpace(EnvObservationSpace(docs))
        aw == IF flag THEN ActionWrapper_init(env_space)
              ELSE [raised |-> "none", dims |-> None, space |-> env_space]
    IN  IF aw.raised # "none"
        THEN [raised |-> aw.raised, built |-> FALSE]
        ELSE [raised |-> "none", built |-> TRUE,
              sampled_reset |-> Sample(EnvObservationSpace(docs)),
              observation_space |-> obs_space,
              sampled_obsw |-> Sample(obs_space),
              action_space |-> aw.space,
              dims |-> aw.dims]

\* ---------------------------------------------------------------------------
\* The underlying environment
\* ---------------------------------------------------------------------------
MultiDiscrete(nvec) == [kind |-> "MultiDiscrete", nvec |-> nvec]

\* Action spaces of the environments handed to recsim_gym_wrapper.
EnvActionSpaces ==
    {MultiDiscrete([i \in 1..SlateSize |-> NumCandidates]),
     [kind |-> "Discrete", n |-> NumCandidates], BoxSpace}

\* Ids of the candidate documents of a fresh environment.
FirstDocIds(n) == [i \in 1..n |-> i - 1]

\* Actions a caller passes to step: with the action wrapper any index around
\* the ends of the declared range, without it an action of the underlying space.
StepInputs ==
    IF convert_flag
    THEN {-1, 0, action_space.n - 1, action_space.n}
    ELSE IF env_action_space.kind = "MultiDiscrete"
         THEN {[i \in 1..Len(env_action_space.nvec) |-> 0],
               [i \in 1..Len(env_action_space.nvec) |-> env_action_space.nvec[i] - 1]}
         ELSE {0}

\* ---------------------------------------------------------------------------
\* Spec: life cycle of an environment built by recsim_gym_wrapper
\* ---------------------------------------------------------------------------
Init ==
    /\ pc = "new"
    /\ convert_flag \in BOOLEAN
    /\ env_action_space \in EnvActionSpaces
    /\ env_docs = FirstDocIds(NumCandidates)
    /\ env_close_called = FALSE
    /\ observation_space = None
    /\ action_space = None
    /\ action_space_dimensions = None
    /\ sampled_obs_reset = None
    /\ sampled_obs_obsw = None
    /\ env_out = None
    /\ raw_obs = None
    /\ obsw_in = None
    /\ obsw_in_after = None
    /\ ret_obs = None
    /\ act_in = None
    /\ last_action = None
    /\ last_op = "none"
    /\ error = "none"
    /\ cfg_in = None
    /\ env_ctx = None

\* env = recsim_gym_wrapper(recsim_gym_env, convert_to_discrete_action_space)
Construct ==
    /\ pc = "new"
    /\ LET w == recsim_gym_wrapper(env_action_space, env_docs, convert_flag)
       IN  /\ error' = w.raised
           /\ pc' = IF w.built THEN "ready" ELSE "failed"
           /\ observation_space' = IF w.built THEN w.observation_space ELSE None
           /\ action_space' = IF w.built THEN w.action_space ELSE None
           /\ action_space_dimensions' = IF w.built THEN w.dims ELSE None
           /\ sampled_obs_reset' = IF w.built THEN w.sampled_reset ELSE None
           /\ sampled_obs_obsw' = IF w.built THEN w.sampled_obsw ELSE None
    /\ last_op' = "construct"
    /\ UNCHANGED <<convert_flag, env_action_space, env_docs, env_close_called,
                   env_out, raw_obs, obsw_in, obsw_in_after, ret_obs, act_in,
                   last_action, cfg_in, env_ctx>>

\* env.reset(): the underlying reset draws fresh documents and returns an
\* observation without "response"; RecSimResetWrapper.reset fills it in and
\* RecSimObservationSpaceWrapper re-keys the documents.
Reset ==
    /\ pc = "ready"
    /\ \E ids \in CandidateIds, u \in UserVals :
       \E r \in ResponseSamples(EnvObservationSpace(ids)) :
          LET out == [user |-> Leaf(EnvDType, u), doc |-> EnvDocObs(ids)]
              rr == ResetWrapper_reset(out, r, sampled_obs_reset)
              oo == observation(rr.ret, sampled_obs_obsw)
          IN  /\ env_docs' = ids
              /\ env_out' = out
              /\ raw_obs' = rr.arg
              /\ obsw_in' = rr.ret
              /\ obsw_in_after' = oo.arg
              /\ ret_obs' = oo.ret
    /\ act_in' = None
    /\ last_action' = None
    /\ last_op' = "reset"
    /\ error' = "none"
    /\ UNCHANGED <<pc, convert_flag, env_action_space, env_close_called,
                   observation_space, action_space, action_space_dimensions,
                   sampled_obs_reset, sampled_obs_obsw, cfg_in, env_ctx>>

\* env.step(a): the action wrapper (when present) converts the index, the
\* underlying step returns an observation keyed by its current document ids,
\* RecSimObservationSpaceWrapper re-keys the documents.
Step ==
    /\ pc = "ready"
    /\ \E a \in StepInputs, ids \in CandidateIds, u \in UserVals,
          r \in Members(ResponseSpace) :
          LET out == [user |-> Leaf(EnvDType, u), doc |-> EnvDocObs(ids),
                      response |-> r]
              oo == observation(out, sampled_obs_obsw)
          IN  /\ act_in' = a
              /\ last_action' = IF convert_flag
                                THEN action(a, action_space_dimensions) ELSE a
              /\ env_docs' = ids
              /\ env_out' = out
              /\ raw_obs' = oo.arg
              /\ obsw_in' = out
              /\ obsw_in_after' = oo.arg
              /\ ret_obs' = oo.ret
    /\ last_op' = "step"
    /\ error' = "none"
    /\ UNCHANGED <<pc, convert_flag, env_action_space, env_close_called,
                   observation_space, action_space, action_space_dimensions,
                   sampled_obs_reset, sampled_obs_obsw, cfg_in, env_ctx>>

\* env.close(): the outer wrappers delegate to RecSimResetWrapper.close.
Close ==
    /\ pc = "ready"
    /\ error' = ResetWrapper_close.raised
    /\ env_close_called' = (env_close_called \/ ResetWrapper_close.env_close)
    /\ last_op' = "close"
    /\ UNCHANGED <<pc, convert_flag, env_action_space, env_docs,
                   observation_space, action_space, action_space_dimensions,
                   sampled_obs_reset, sampled_obs_obsw, env_out, raw_obs,
                   obsw_in, obsw_in_after, ret_obs, act_in, last_action,
                   cfg_in, env_ctx>>

Next == Construct \/ Reset \/ Step \/ Close

Spec == Init /\ [][Next]_vars

\* ---------------------------------------------------------------------------
\* SpecAction: MultiDiscreteToDiscreteActionWrapper.action as a function
\* ---------------------------------------------------------------------------
\* Slot cardinality vectors: 1..MaxSlots slots of 1..MaxCard choices each.
NvecSet == UNION {[1..s -> 1..MaxCard] : s \in 1..MaxSlots}

InitAction ==
    /\ pc = "ready"
    /\ convert_flag = TRUE
    /\ \E nvec \in NvecSet :
          LET w == recsim_gym_wrapper(MultiDiscrete(nvec),
                                      FirstDocIds(NumCandidates), TRUE)
          IN  /\ env_action_space = MultiDiscrete(nvec)
              /\ observation_space = w.observation_space
              /\ action_space = w.action_space
              /\ action_space_dimensions = w.dims
              /\ sampled_obs_reset = w.sampled_reset
              /\ sampled_obs_obsw = w.sampled_obsw
    /\ env_docs = FirstDocIds(NumCandidates)
    /\ env_close_called = FALSE
    /\ env_out = None
    /\ raw_obs = None
    /\ obsw_in = None
    /\ obsw_in_after = None
    /\ ret_obs = None
    /\ act_in = None
    /\ last_action = None
    /\ last_op = "construct"
    /\ error = "none"
    /\ cfg_in = None
    /\ env_ctx = None

\* wrapper.action(i) for an arbitrary int i.
ActionCall ==
    /\ pc = "ready"
    /\ \E i \in (-MaxIndex)..MaxIndex :
          /\ act_in' = i
          /\ last_action' = action(i, action_space_dimensions)
    /\ last_op' = "action"
    /\ UNCHANGED <<pc, convert_flag, env_action_space, env_docs, env_close_called,
                   observation_space, action_space, action_space_dimensions,
                   sampled_obs_reset, sampled_obs_obsw, env_out, raw_obs,
                   obsw_in, obsw_in_after, ret_obs, error, cfg_in, env_ctx>>

NextAction == ActionCall

SpecAction == InitAction /\ [][NextAction]_vars

\* ---------------------------------------------------------------------------
\* SpecConfig: _RecSimEnv.__init__(env_ctx)
\* ---------------------------------------------------------------------------
default_config ==
    [num_candidates |-> 10, slate_size |-> 2, resample_documents |-> TRUE,
     seed |-> 0, convert_to_discrete_action_space |-> FALSE]

Empty == [k \in {} |-> 0]

\* For each key, what a caller may do: leave it out, or give it a value.
KeyChoices ==
    <<{Empty, [num_candidates |-> 10], [num_candidates |-> 3]},
      {Empty, [slate_size |-> 2], [slate_size |-> 1]},
      {Empty, [resample_documents |-> TRUE], [resample_documents |-> FALSE]},
      {Empty, [seed |-> 0], [seed |-> 7]},
      {Empty, [convert_to_discrete_action_space |-> FALSE],
              [convert_to_discrete_action_space |-> TRUE]}>>

\* The mappings a caller may pass: any subset of the keys, each with a value.
Mappings ==
    {c[1] @@ c[2] @@ c[3] @@ c[4] @@ c[5] :
        c \in {t \in [1..5 -> UNION {KeyChoices[i] : i \in 1..5}] :
                  \A i \in 1..5 : t[i] \in KeyChoices[i]}}

\* Arguments of _RecSimEnv(env_ctx): None, a plain dict, or an EnvContext
\* created for some worker.
ConfigArgs ==
    {None} \cup {[kind |-> "dict", items |-> m] : m \in Mappings}
           \cup {[kind |-> "EnvContext", items |-> m, worker_index |-> 1] : m \in Mappings}

\* EnvContext(env_config, worker_index): a dict holding a copy of env_config.
EnvContext(env_config, worker_index) ==
    [kind |-> "EnvContext", items |-> env_config, worker_index |-> worker_index]

\* EnvContext.set_defaults(defaults): every key of defaults that the context
\* lacks is set to the default; the keys it has keep their values.
set_defaults(ctx, defaults) ==
    [ctx EXCEPT !.items =
        [k \in DOMAIN ctx.items \cup DOMAIN defaults |->
            IF k \in DOMAIN ctx.items THEN ctx.items[k] ELSE defaults[k]]]

\* Faulty variant: the operands swapped, so the defaults always win.
or_default_swapped(arg) == default_config
\* env_ctx or default_config: None and the empty mapping are falsy.
or_default(arg) ==
    IF arg.kind = "None" \/ DOMAIN arg.items = {} THEN default_config ELSE arg.items

\* Lines 183-192 of __init__: the context the environment is built from.
\* EnvContext is a dict, so a dict and an EnvContext both take the first branch.
RecSimEnv_env_ctx(arg) ==
    LET ctx == IF arg.kind = "None" \/ arg.kind \in {"dict", "EnvContext"}
               THEN EnvContext(or_default(arg), 0)
               ELSE arg
    IN  set_defaults(ctx, default_config)

InitConfig ==
    /\ pc = "new"
    /\ cfg_in \in ConfigArgs
    /\ env_ctx = None
    /\ convert_flag = FALSE
    /\ env_action_space = None
    /\ env_docs = <<>>
    /\ env_close_called = FALSE
    /\ observation_space = None
    /\ action_space = None
    /\ action_space_dimensions = None
    /\ sampled_obs_reset = None
    /\ sampled_obs_obsw = None
    /\ env_out = None
    /\ raw_obs = None
    /\ obsw_in = None
    /\ obsw_in_after = None
    /\ ret_obs = None
    /\ act_in = None
    /\ last_action = None
    /\ last_op = "none"
    /\ error = "none"

\* _RecSimEnv.__init__: the configuration is completed, the RecSim environment
\* is created from it (its action space has slate_size slots of num_candidates
\* choices) and recsim_gym_wrapper is applied.
RecSimEnvInit ==
    /\ pc = "new"
    /\ LET ctx == RecSimEnv_env_ctx(cfg_in)
           space == MultiDiscrete([i \in 1..ctx.items.slate_size |->
                                      ctx.items.num_candidates])
           docs == FirstDocIds(ctx.items.num_candidates)
           w == recsim_gym_wrapper(space, docs,
                                   ctx.items.convert_to_discrete_action_space)
       IN  /\ env_ctx' = ctx
           /\ convert_flag' = ctx.items.convert_to_discrete_action_space
           /\ env_action_space' = space
           /\ env_docs' = docs
           /\ error' = w.raised
           /\ pc' = IF w.built THEN "ready" ELSE "failed"
           /\ observation_space' = IF w.built THEN w.observation_space ELSE None
           /\ action_space' = IF w.built THEN w.action_space ELSE None
           /\ action_space_dimensions' = IF w.built THEN w.dims ELSE None
           /\ sampled_obs_reset' = IF w.built THEN w.sampled_reset ELSE None
           /\ sampled_obs_obsw' = IF w.built THEN w.sampled_obsw ELSE None
    /\ last_op' = "construct"
    /\ UNCHANGED <<env_close_called, env_out, raw_obs, obsw_in, obsw_in_after,
                   ret_obs, act_in, last_action, cfg_in>>

NextConfig == RecSimEnvInit

SpecConfig == InitConfig /\ [][NextConfig]_vars

\* ---------------------------------------------------------------------------
\* Properties
\* ---------------------------------------------------------------------------
TopLevelFields == {"user", "doc", "response"}

\* The keys "0", ..., "n-1".
PositionKeys(n) == {str(k) : k \in 0..(n - 1)}

\* Number of documents the built environment declares.
DeclaredDocCount == Len(observation_space.doc)

\* C1: every observation returned by step has a "doc" mapping whose keys are
\* exactly "0".."N-1", N being the declared document count, whatever ids the
\* underlying environment used in that step.
C1_StepDocKeys ==
    last_op = "step" =>
        /\ Len(ret_obs.doc) = DeclaredDocCount
        /\ Keys(ret_obs.doc) = PositionKeys(DeclaredDocCount)
        /\ Cardinality(Keys(ret_obs.doc)) = DeclaredDocCount

\* C1 witness: a step in which the underlying environment keyed its documents
\* by something else than their positions.
C1_Witness ==
    /\ last_op = "step"
    /\ Keys(env_out.doc) # PositionKeys(DeclaredDocCount)
    /\ env_out.doc[1].key # "0"

\* C2: every reset returns an observation with a "response" that is a member
\* of the declared response space, although the underlying reset result has
\* none; reset and step observations have the same top-level fields.
C2_ResetResponse ==
    /\ last_op = "reset" =>
          /\ "response" \notin DOMAIN env_out
          /\ DOMAIN obsw_in = TopLevelFields
          /\ obsw_in.response \in Members(observation_space.response)
          /\ DOMAIN ret_obs = TopLevelFields
          /\ ret_obs.response \in Members(observation_space.response)
    /\ last_op = "step" => DOMAIN ret_obs = TopLevelFields

\* C2 witness: a reset of an environment whose documents have changed since
\* construction.
C2_Witness ==
    /\ last_op = "reset"
    /\ env_docs # FirstDocIds(NumCandidates)
    /\ ret_obs.response.val = 1

\* C3: the exposed action space is Discrete(P), P the product of the slot
\* cardinalities, and action restricted to 0..P-1 is a bijection onto the
\* cross-product of the per-slot choices.
RECURSIVE SlotVectors(_)
SlotVectors(dims) ==
    IF dims = <<>> THEN {<<>>}
    ELSE {<<h>> \o t : h \in 0..(Head(dims) - 1), t \in SlotVectors(Tail(dims))}

C3_Bijection ==
    LET dims == action_space_dimensions
        P == prod(dims)
        image == {action(i, dims) : i \in 0..(P - 1)}
    IN  /\ action_space = [kind |-> "Discrete", n |-> P]
        /\ image = SlotVectors(dims)
        /\ Cardinality(image) = P
        /\ (last_op = "action" /\ act_in \in 0..(P - 1)) =>
              /\ last_action \in SlotVectors(dims)
              /\ \A j \in 0..(P - 1) : j # act_in => action(j, dims) # last_action

\* C3 witness: an in-range index converted for a two-slot space, both slots
\* taking a non-zero choice.
C3_Witness ==
    /\ last_op = "action"
    /\ Len(action_space_dimensions) = 2
    /\ act_in \in 1..(prod(action_space_dimensions) - 1)
    /\ last_action[1] > 0
    /\ last_action[2] > 0

\* C4 as stated: for cardinalities [3,4] index 5 converts to [1,1], the first
\* slot being the most significant digit.
C4_Original ==
    (last_op = "action" /\ action_space_dimensions = <<3, 4>> /\ act_in = 5)
        => last_action = <<1, 1>>

RECURSIVE LittleEndian(_, _)
\* Value of a slot vector read with the first slot as least significant digit.
LittleEndian(v, dims) ==
    IF v = <<>> THEN 0 ELSE Head(v) + Head(dims) * LittleEndian(Tail(v), Tail(dims))

\* C4 amended: for cardinalities [3,4] index 5 converts to [2,1] (5 = 2 + 1*3):
\* the first slot is the least significant digit of the combined index.
C4_Amended ==
    /\ (last_op = "action" /\ action_space_dimensions = <<3, 4>> /\ act_in = 5)
          => last_action = <<2, 1>>
    /\ (last_op = "action" /\ act_in \in 0..(prod(action_space_dimensions) - 1))
          => LittleEndian(last_action, action_space_dimensions) = act_in

\* C4 witness: index 5 converted for cardinalities [3,4].
C4_Witness ==
    /\ last_op = "action"
    /\ action_space_dimensions = <<3, 4>>
    /\ act_in = 5

\* C5: with the conversion requested, construction over an action space that
\* is not MultiDiscrete fails with UnsupportedSpaceException and yields no
\* environment; no other exception is raised by the module, and without the
\* conversion construction succeeds for every action space.
C5_UnsupportedSpace ==
    /\ error \in {"none", "UnsupportedSpaceException"}
    /\ pc # "new" =>
          /\ (error = "UnsupportedSpaceException")
                <=> (convert_flag /\ env_action_space.kind # "MultiDiscrete")
          /\ (convert_flag /\ env_action_space.kind # "MultiDiscrete") =>
                /\ pc = "failed"
                /\ observation_space = None
                /\ action_space = None
          /\ ~convert_flag => pc = "ready"
          /\ (pc = "failed") <=> (error = "UnsupportedSpaceException")

\* C5 witness: a construction that failed over a Box action space.
C5_Witness ==
    /\ pc = "failed"
    /\ error = "UnsupportedSpaceException"
    /\ env_action_space.kind = "Box"

\* C6: close never raises, never invokes the underlying close and changes
\* nothing of the wrappers or of the underlying environment; reset and step
\* remain possible afterwards.
C6_CloseNoOp ==
    /\ [](last_op = "close" => (ENABLED Reset /\ ENABLED Step))
    /\ [][last_op' = "close" =>
            /\ error' = "none"
            /\ env_close_called' = FALSE
            /\ pc' = "ready"
            /\ UNCHANGED <<convert_flag, env_action_space, env_docs,
                           observation_space, action_space,
                           action_space_dimensions, sampled_obs_reset,
                           sampled_obs_obsw, ret_obs, raw_obs>>]_vars

\* C6 witness: a close of an environment that has already stepped.
C6_Witness ==
    /\ last_op = "close"
    /\ pc = "ready"
    /\ "response" \in DOMAIN env_out
    /\ env_docs # FirstDocIds(NumCandidates)

\* C7: every configuration key the caller omitted takes its default, every
\* key the caller supplied keeps the caller's value.
C7_Defaults ==
    pc # "new" =>
        /\ DOMAIN env_ctx.items = DOMAIN default_config
        /\ \A k \in DOMAIN default_config :
              env_ctx.items[k] =
                  IF cfg_in.kind # "None" /\ k \in DOMAIN cfg_in.items
                  THEN cfg_in.items[k] ELSE default_config[k]
        /\ default_config.num_candidates = 10
        /\ default_config.slate_size = 2
        /\ default_config.resample_documents = TRUE
        /\ default_config.seed = 0
        /\ default_config.convert_to_discrete_action_space = FALSE

\* C7 witness: an environment built from a partial mapping that sets only the
\* seed, to a value other than the default.
C7_Witness ==
    /\ pc # "new"
    /\ cfg_in.kind = "dict"
    /\ DOMAIN cfg_in.items = {"seed"}
    /\ env_ctx.items.seed = 7
    /\ env_ctx.items.num_candidates = 10

\* C8: observation keeps content and order: the value under key str(k) is the
\* k-th document value of its argument, user and response are carried over,
\* and the argument is not modified.
C8_ObservationPreserves ==
    last_op \in {"reset", "step"} =>
        /\ Len(ret_obs.doc) = Len(obsw_in.doc)
        /\ \A k \in 1..Len(obsw_in.doc) :
              /\ ret_obs.doc[k].key = str(k - 1)
              /\ ret_obs.doc[k].value.val = obsw_in.doc[k].value.val
        /\ ret_obs.user.val = obsw_in.user.val
        /\ ret_obs.response.val = obsw_in.response.val
        /\ obsw_in_after = obsw_in

\* C8 witness: a step whose documents arrive in descending id order, so that
\* position and id order disagree.
C8_Witness ==
    /\ last_op = "step"
    /\ obsw_in.doc[1].value.val > obsw_in.doc[2].value.val
    /\ obsw_in.doc[1].key # "0"
    /\ obsw_in.user.val = 1

\* C9: after construction the declared observation space (document keys
\* "0".."N-1"), the declared action space and the stored slot cardinalities
\* never change, although the underlying environment's ids do.
C9_DeclaredSpacesFixed ==
    /\ [](pc = "ready" =>
            /\ Keys(observation_space.doc) = PositionKeys(NumCandidates)
            /\ \A k \in 1..NumCandidates : observation_space.doc[k].key = str(k - 1)
            /\ action_space = (IF convert_flag
                               THEN [kind |-> "Discrete",
                                     n |-> prod(env_action_space.nvec)]
                               ELSE env_action_space))
    /\ [][pc = "ready" =>
            UNCHANGED <<observation_space, action_space, action_space_dimensions,
                        sampled_obs_reset, sampled_obs_obsw>>]_vars

\* C9 witness: after a step the underlying environment declares document keys
\* other than those of the built environment.
C9_Witness ==
    /\ last_op = "step"
    /\ convert_flag
    /\ Keys(EnvObservationSpace(env_docs).doc) # Keys(observation_space.doc)

\* C10: for every int index, in range or not, action returns one component
\* per slot, each within its slot's range, and the result is that of the index
\* reduced modulo P.
C10_Aliasing ==
    last_op = "action" =>
        LET dims == action_space_dimensions
            P == prod(dims)
        IN  /\ Len(last_action) = Len(dims)
            /\ \A k \in 1..Len(dims) : last_action[k] \in 0..(dims[k] - 1)
            /\ last_action = action(act_in % P, dims)

\* C10 witness: a negative index converted for a two-slot space.
C10_Witness ==
    /\ last_op = "action"
    /\ act_in < 0
    /\ Len(action_space_dimensions) = 2
    /\ prod(action_space_dimensions) > 1

====
